---- MODULE Spec2Model ----
(***************************************************************************)
(* Pseudo-label refinement of Net/predutils.py and its use by the testing  *)
(* routine of Net/main.py: spatial correction of a label map, thresholding *)
(* of a distance map, and the selection of pixel pairs by percentage and   *)
(* by neighbourhood.                                                       *)
(*                                                                         *)
(* Arrays keep the source's 0-based flat (row-major) indexing: an array of *)
(* n elements is a function with domain 0..n-1.  Distances are floats in   *)
(* the source; here they are integers (tenths in the worked scenarios),    *)
(* which keeps every comparison the code makes (>, <=, ordering).          *)
(***************************************************************************)
EXTENDS Integers, Sequences, FiniteSets, TLC

\* ------------------------------------------------------------------ bounds
MaxImages == 3     \* a dataset holds up to MaxImages image pairs
MaxH == 2          \* label grids given to spatial_correction: up to MaxH rows
MaxW == 3          \* ... and MaxW columns
MaxRecH == 2       \* pseudo-label records: up to MaxRecH rows
MaxRecW == 2       \* ... and MaxRecW columns
MaxDist == 2       \* distances and thresholds range over 0..MaxDist
MaxRadius == 3     \* radii passed by callers range up to MaxRadius

\* --------------------------------------------------------------- constants
CHANGED_LABEL == "CHANGED"
UNCHANGED_LABEL == "UNCHANGED"
UNKNOWN_LABEL == "UNKNOWN"
Labels == {CHANGED_LABEL, UNCHANGED_LABEL, UNKNOWN_LABEL}

\* default value of spatial_correction's radius parameter
DefaultRadius == 3

Max(a, b) == IF a >= b THEN a ELSE b
Min(a, b) == IF a <= b THEN a ELSE b

\* ------------------------------------------------------------ label grids
\* a 2-dim array: shape (h, w) and its cells in row-major order
Grid(h, w, a) == [h |-> h, w |-> w, a |-> a]
At(g, r, c) == g.a[r * g.w + c]

GridsOver(S, maxh, maxw) ==
    UNION {{Grid(h, w, a) : a \in [0..(h * w - 1) -> S]} :
             <<h, w>> \in (1..maxh) \X (1..maxw)}

\* ------------------------------------------------- the moving "kernel"
\* (mutant) the slice starts one row / column too early
upper_OffByOne(x, radius) == Max(0, x - radius)

\* rows upper_x..lower_x-1 and columns upper_y..lower_y-1 of the slice
upper(x, radius) == Max(0, x - (radius - 1))
lower(x, maxx, radius) == Min(maxx, x + radius)

\* prediction[upper_x:lower_x, upper_y:lower_y].ravel(): the labels of the
\* slice, row by row, as a sequence
RECURSIVE RavelFrom(_, _, _, _, _, _)
RavelFrom(g, r, c, uy, lx, ly) ==
    IF r >= lx \/ uy >= ly THEN <<>>
    ELSE IF c >= ly THEN RavelFrom(g, r + 1, uy, uy, lx, ly)
    ELSE <<At(g, r, c)>> \o RavelFrom(g, r, c + 1, uy, lx, ly)

Window(g, row, col, radius) ==
    RavelFrom(g, upper(row, radius), upper(col, radius), upper(col, radius),
              lower(row, g.h, radius), lower(col, g.w, radius))

\* collections.Counter(seq): the distinct elements in order of first
\* occurrence, each with its number of occurrences
Occurrences(seq, x) == Cardinality({i \in 1..Len(seq) : seq[i] = x})

RECURSIVE FirstSeen(_, _)
FirstSeen(seq, seen) ==
    IF seq = <<>> THEN <<>>
    ELSE IF Head(seq) \in seen THEN FirstSeen(Tail(seq), seen)
    ELSE <<Head(seq)>> \o FirstSeen(Tail(seq), seen \cup {Head(seq)})

Counter(seq) ==
    LET keys == FirstSeen(seq, {})
    IN  [i \in 1..Len(keys) |-> <<keys[i], Occurrences(seq, keys[i])>>]

\* Counter.most_common(): sorted(items, key=count, reverse=True); the sort
\* is stable, so items of equal count stay in order of first occurrence
RemoveAt(seq, i) == SubSeq(seq, 1, i - 1) \o SubSeq(seq, i + 1, Len(seq))

RECURSIVE most_common(_)
most_common(items) ==
    IF items = <<>> THEN <<>>
    ELSE LET i == CHOOSE k \in 1..Len(items) :
                     /\ \A m \in 1..Len(items) : items[m][2] <= items[k][2]
                     /\ \A m \in 1..(k - 1) : items[m][2] < items[k][2]
         IN  <<items[i]>> \o most_common(RemoveAt(items, i))

\* ----------------------------------------------------- spatial_correction
\* (mutant) the tie is not looked at: always the first of most_common
CorrectedPixel_NoTie(prediction, row, col, radius) ==
    most_common(Counter(Window(prediction, row, col, radius)))[1][1]

\* (mutant) a pixel whose window holds a single label is not assigned: it
\* keeps the zero np.zeros put there, which reads as a label
CorrectedPixel_ZeroKept(prediction, row, col, radius) ==
    LET counts == most_common(Counter(Window(prediction, row, col, radius)))
    IN  IF Len(counts) > 1 /\ counts[1][2] = counts[2][2]
        THEN At(prediction, row, col)
        ELSE IF Len(counts) = 1 THEN CHANGED_LABEL
        ELSE counts[1][1]

\* the label of one corrected pixel
CorrectedPixel(prediction, row, col, radius) ==
    LET counts == most_common(Counter(Window(prediction, row, col, radius)))
    IN  IF Len(counts) > 1 /\ counts[1][2] = counts[2][2]
        THEN At(prediction, row, col)
        ELSE counts[1][1]

spatial_correction(prediction, radius) ==
    Grid(prediction.h, prediction.w,
         [i \in 0..(prediction.h * prediction.w - 1) |->
             CorrectedPixel(prediction, i \div prediction.w,
                            i % prediction.w, radius)])

\* ------------------------------------------------------- pseudo-label record
\* the dictionary dumped by the generation script: 'distances' (1-dim, one
\* distance per pixel pair), 'threshold' and 'shape' (height, width)
PseudoDict(distances, threshold, shape) ==
    [distances |-> distances, threshold |-> threshold, shape |-> shape]

Size(pseudo_dict) == pseudo_dict.shape[1] * pseudo_dict.shape[2]

\* distances [0.1, 0.2, 0.8, 0.9] with threshold 0.5 on a 2x2 image, in tenths
EndToEndRecord ==
    PseudoDict([i \in 0..3 |-> <<1, 2, 8, 9>>[i + 1]], 5, <<2, 2>>)

\* a 5x5 image, every distance below the threshold except the central pixel's
UnanimityRecord ==
    PseudoDict([i \in 0..24 |-> IF i = 12 THEN 9 ELSE 1], 5, <<5, 5>>)

\* ten pairs below and ten pairs above the threshold, all distances distinct
TenTenRecord ==
    PseudoDict([i \in 0..19 |-> IF i % 2 = 0 THEN 10 - i \div 2
                                 ELSE 10 + (i + 1) \div 2], 10, <<4, 5>>)

\* a 3x6 image: the three left columns below the threshold, but for one noisy
\* pixel at (1,0), and the three right columns above it
NoisySplitRecord ==
    PseudoDict([i \in 0..17 |-> IF i = 6 THEN 7 ELSE IF i % 6 >= 3 THEN 8 ELSE 2],
               5, <<3, 6>>)

\* records whose distances do not have height x width elements
MalformedRecords ==
    UNION {{PseudoDict(d, t, <<h, w>>) :
               d \in UNION {[0..(n - 1) -> 0..MaxDist] :
                              n \in (0..(MaxRecH * MaxRecW)) \ {h * w}},
               t \in 0..MaxDist} :
             <<h, w>> \in (1..MaxRecH) \X (1..MaxRecW)}

Records ==
    {EndToEndRecord, UnanimityRecord, TenTenRecord, NoisySplitRecord} \cup
    UNION {{PseudoDict(d, t, <<h, w>>) :
               d \in [0..(h * w - 1) -> 0..MaxDist], t \in 0..MaxDist} :
             <<h, w>> \in (1..MaxRecH) \X (1..MaxRecW)}

\* ------------------------------------------------------------ thresholding
\* (mutant) a distance equal to the threshold counts as changed
where_gt_OrEqual(distances, threshold) ==
    [i \in DOMAIN distances |->
        IF distances[i] >= threshold THEN CHANGED_LABEL ELSE UNCHANGED_LABEL]

\* np.where(distances > threshold, CHANGED_LABEL, UNCHANGED_LABEL)
where_gt(distances, threshold) ==
    [i \in DOMAIN distances |->
        IF distances[i] > threshold THEN CHANGED_LABEL ELSE UNCHANGED_LABEL]

\* (mutant) a reshape that takes the first height x width cells of a longer
\* array instead of refusing it
reshapable_Truncating(a, shape) == Cardinality(DOMAIN a) >= shape[1] * shape[2]

\* np.reshape raises ValueError unless the array has height x width cells
reshapable(a, shape) == Cardinality(DOMAIN a) = shape[1] * shape[2]

\* np.reshape(array, shape): the same cells, seen as a (height x width) grid
reshape(a, shape) == Grid(shape[1], shape[2], a)

\* ------------------------------------------------------------------ argsort
\* numpy's argsort with the default kind is not a stable sort: positions of
\* equal keys come out in an order fixed by the build.  tie is that order:
\* "asc" puts the lower position first, "desc" the higher one.
TieOrders == {"asc", "desc"}

First(S, key, tie) ==
    CHOOSE x \in S :
        \A y \in S \ {x} :
            \/ key[x] < key[y]
            \/ key[x] = key[y] /\ (IF tie = "asc" THEN x < y ELSE x > y)

RECURSIVE argsort(_, _, _)
argsort(S, key, tie) ==
    IF S = {} THEN <<>>
    ELSE LET x == First(S, key, tie)
         IN  <<x>> \o argsort(S \ {x}, key, tie)

\* ------------------------------------------------------ labels_by_percentage
\* a percentage is the float num/den, written <<num, den>>; the denominators
\* are powers of two, so that percentage*len is exact in floating point
Percentages == {<<1, 4>>, <<1, 2>>, <<3, 4>>, <<1, 1>>}
BadPercentages == {<<0, 1>>, <<-1, 2>>, <<5, 4>>}

\* (mutant) a percentage of 0 is let through
percentage_invalid_ZeroAllowed(percentage) ==
    percentage[1] < 0 \/ percentage[1] > percentage[2]

\* percentage <= 0 or percentage > 1
percentage_invalid(percentage) ==
    percentage[1] <= 0 \/ percentage[1] > percentage[2]

\* (mutant) round(percentage * n) instead of int(percentage * n)
Taken_Rounded(percentage, n) ==
    (2 * percentage[1] * n + percentage[2]) \div (2 * percentage[2])

\* int(percentage * n), for percentage > 0
Taken(percentage, n) == (percentage[1] * n) \div percentage[2]

Full(n, x) == [i \in 1..n |-> x]

Selection(indices, labels) == [indices |-> indices, labels |-> labels]

\* (mutant) the changed pairs are ordered by ascending distance too
labels_by_percentage_Ascending(pseudo_dict, percentage, tie) ==
    LET pseudo_distances == pseudo_dict.distances
        threshold == pseudo_dict.threshold
        N == {i \in DOMAIN pseudo_distances : pseudo_distances[i] <= threshold}
        C == {i \in DOMAIN pseudo_distances : pseudo_distances[i] > threshold}
        nmatrix == argsort(N, pseudo_distances, tie)
        cmatrix == argsort(C, pseudo_distances, tie)
    IN  Selection(SubSeq(nmatrix, 1, Taken(percentage, Len(nmatrix))) \o
                  SubSeq(cmatrix, 1, Taken(percentage, Len(cmatrix))),
                  Full(Taken(percentage, Len(nmatrix)), UNCHANGED_LABEL) \o
                  Full(Taken(percentage, Len(cmatrix)), CHANGED_LABEL))

\* (mutant) the changed pairs are those with distance >= threshold, so a pair
\* at the threshold is in both classes
labels_by_percentage_Overlap(pseudo_dict, percentage, tie) ==
    LET pseudo_distances == pseudo_dict.distances
        threshold == pseudo_dict.threshold
        N == {i \in DOMAIN pseudo_distances : pseudo_distances[i] <= threshold}
        C == {i \in DOMAIN pseudo_distances : pseudo_distances[i] >= threshold}
        nmatrix == argsort(N, pseudo_distances, tie)
        cmatrix == argsort(C, [i \in C |-> -pseudo_distances[i]], tie)
    IN  Selection(SubSeq(nmatrix, 1, Taken(percentage, Len(nmatrix))) \o
                  SubSeq(cmatrix, 1, Taken(percentage, Len(cmatrix))),
                  Full(Taken(percentage, Len(nmatrix)), UNCHANGED_LABEL) \o
                  Full(Taken(percentage, Len(cmatrix)), CHANGED_LABEL))

\* (mutant) the threshold is computed anew, as the middle of the range of the
\* distances, instead of being read from the record
labels_by_percentage_Recomputed(pseudo_dict, percentage, tie) ==
    LET pseudo_distances == pseudo_dict.distances
        lo == CHOOSE x \in {pseudo_distances[i] : i \in DOMAIN pseudo_distances} :
                 \A i \in DOMAIN pseudo_distances : x <= pseudo_distances[i]
        hi == CHOOSE x \in {pseudo_distances[i] : i \in DOMAIN pseudo_distances} :
                 \A i \in DOMAIN pseudo_distances : x >= pseudo_distances[i]
        threshold == (lo + hi) \div 2
        N == {i \in DOMAIN pseudo_distances : pseudo_distances[i] <= threshold}
        C == {i \in DOMAIN pseudo_distances : pseudo_distances[i] > threshold}
        nmatrix == argsort(N, pseudo_distances, tie)
        cmatrix == argsort(C, [i \in C |-> -pseudo_distances[i]], tie)
    IN  Selection(SubSeq(nmatrix, 1, Taken(percentage, Len(nmatrix))) \o
                  SubSeq(cmatrix, 1, Taken(percentage, Len(cmatrix))),
                  Full(Taken(percentage, Len(nmatrix)), UNCHANGED_LABEL) \o
                  Full(Taken(percentage, Len(cmatrix)), CHANGED_LABEL))

labels_by_percentage(pseudo_dict, percentage, tie) ==
    LET pseudo_distances == pseudo_dict.distances
        threshold == pseudo_dict.threshold
        N == {i \in DOMAIN pseudo_distances : pseudo_distances[i] <= threshold}
        C == {i \in DOMAIN pseudo_distances : pseudo_distances[i] > threshold}
        nmatrix == argsort(N, pseudo_distances, tie)
        cmatrix == argsort(C, [i \in C |-> -pseudo_distances[i]], tie)
        labels == Full(Taken(percentage, Len(nmatrix)), UNCHANGED_LABEL) \o
                  Full(Taken(percentage, Len(cmatrix)), CHANGED_LABEL)
        selected_data == SubSeq(nmatrix, 1, Taken(percentage, Len(nmatrix))) \o
                         SubSeq(cmatrix, 1, Taken(percentage, Len(cmatrix)))
    IN  Selection(selected_data, labels)

\* ---------------------------------------------------- labels_by_neighborhood
\* radius < 1
radius_invalid(radius) == radius < 1

\* (mutant) the label map is scanned without having been corrected
pseudo_lab_Uncorrected(pseudo_dict) ==
    reshape(where_gt(pseudo_dict.distances, pseudo_dict.threshold),
            pseudo_dict.shape)

\* the corrected label map the selection scans
pseudo_lab(pseudo_dict) ==
    spatial_correction(
        reshape(where_gt(pseudo_dict.distances, pseudo_dict.threshold),
                pseudo_dict.shape),
        DefaultRadius)

RECURSIVE Scan(_, _, _)
Scan(lab, radius, i) ==
    IF i >= lab.h * lab.w THEN Selection(<<>>, <<>>)
    ELSE LET row == i \div lab.w
             col == i % lab.w
             counts == most_common(Counter(Window(lab, row, col, radius)))
             rest == Scan(lab, radius, i + 1)
         IN  IF Len(counts) = 1
             THEN Selection(<<row * lab.w + col>> \o rest.indices,
                            <<At(lab, row, col)>> \o rest.labels)
             ELSE rest

labels_by_neighborhood(pseudo_dict, radius) ==
    Scan(pseudo_lab(pseudo_dict), radius, 0)

\* ---------------------------------------------- hybrid selection (main.py)
\* The testing routine's fine-tuning codes 3..6 complete a selection of
\* pseudo labels with the real labels (img_label) of the pairs left out.
RangeOf(seq) == {seq[i] : i \in 1..Len(seq)}

\* the positions of 0..n-1 that are not in indices, in ascending order
RECURSIVE Remaining(_, _, _)
Remaining(n, indices, i) ==
    IF i >= n THEN <<>>
    ELSE IF i \in RangeOf(indices) THEN Remaining(n, indices, i + 1)
    ELSE <<i>> \o Remaining(n, indices, i + 1)

RealLabels(img_label, indices) ==
    [k \in 1..Len(indices) |-> img_label[indices[k]]]

\* code 3 / 5: the pseudo-labelled pairs, then every other pair with its
\* real label
PseudoPlusLabels(n, selection, img_label) ==
    LET rest == Remaining(n, selection.indices, 0)
    IN  Selection(selection.indices \o rest,
                  selection.labels \o RealLabels(img_label, rest))

\* code 4 / 6: only the pairs the pseudo-label selection left out, with their
\* real labels
OnlyLabels(n, selection, img_label) ==
    LET rest == Remaining(n, selection.indices, 0)
    IN  Selection(rest, RealLabels(img_label, rest))

\* the real labels of an image of n pairs
GroundTruths(n) ==
    {[i \in 0..(n - 1) |-> l] : l \in Labels} \cup
    {[i \in 0..(n - 1) |-> IF i % 2 = 0 THEN CHANGED_LABEL ELSE UNKNOWN_LABEL]}

\* -------------------------------------------------------------------- state
VARIABLES
    prediction,    \* the label map handed to spatial_correction
    pseudo_dict,   \* the pseudo-label record of the image
    tieOrder,      \* the order in which this build's argsort leaves equal keys
    call,          \* the call in progress: function and arguments
    ret,           \* what the call produced
    run            \* the script in progress (testing routine, generation
                   \* script), or the last call returned

vars == <<prediction, pseudo_dict, tieOrder, call, ret, run>>

\* no script is running
NoRun == [kind |-> "none"]

NoGrid == Grid(0, 0, <<>>)
NoRecord == PseudoDict(<<>>, 0, <<0, 0>>)
NoSelection == Selection(<<>>, <<>>)

Call(op, percentage, radius, threshold, img_label) ==
    [op |-> op, percentage |-> percentage, radius |-> radius,
     threshold |-> threshold, img_label |-> img_label]
NoCall == Call("none", <<0, 1>>, 0, 0, <<>>)

\* outcome: "ok" (returned) or the exception raised; read: the call got as
\* far as reading the record; selection / map: the value returned
Ret(outcome, read, selection, map) ==
    [outcome |-> outcome, read |-> read, selection |-> selection, map |-> map]
NoRet == Ret("none", FALSE, NoSelection, NoGrid)
Raised(exception) == Ret(exception, FALSE, NoSelection, NoGrid)
Returned(selection) == Ret("ok", TRUE, selection, NoGrid)

Idle == call.op = "none"

\* ------------------------------------------------------------------ actions
\* spatial_correction(prediction, radius)
CallSpatialCorrection(radius) ==
    /\ Idle
    /\ call' = Call("spatial_correction", <<0, 1>>, radius, 0, <<>>)
    /\ ret' = Ret("ok", FALSE, NoSelection, spatial_correction(prediction, radius))
    /\ UNCHANGED <<prediction, pseudo_dict, tieOrder, run>>

\* pseudo_labels(..., return_distances=False): the distances of the pair,
\* turned into labels with the threshold Otsu's method gives
CallPseudoLabels(threshold) ==
    /\ Idle
    /\ call' = Call("pseudo_labels", <<0, 1>>, 0, threshold, <<>>)
    /\ ret' = Ret("ok", TRUE, NoSelection,
                  reshape(where_gt(pseudo_dict.distances, threshold),
                          pseudo_dict.shape))
    /\ UNCHANGED <<prediction, pseudo_dict, tieOrder, run>>

\* labels_by_percentage(pseudo_dict, percentage)
CallLabelsByPercentage(percentage) ==
    /\ Idle
    /\ call' = Call("labels_by_percentage", percentage, 0, 0, <<>>)
    /\ ret' = IF percentage_invalid(percentage)
              THEN Raised("ValueError")
              ELSE Returned(labels_by_percentage(pseudo_dict, percentage, tieOrder))
    /\ UNCHANGED <<prediction, pseudo_dict, tieOrder, run>>

\* labels_by_neighborhood(pseudo_dict, radius)
CallLabelsByNeighborhood(radius) ==
    /\ Idle
    /\ call' = Call("labels_by_neighborhood", <<0, 1>>, radius, 0, <<>>)
    /\ ret' = IF radius_invalid(radius)
              THEN Raised("ValueError")
              ELSE IF ~reshapable(pseudo_dict.distances, pseudo_dict.shape)
              THEN Ret("ValueError", TRUE, NoSelection, NoGrid)
              ELSE Returned(labels_by_neighborhood(pseudo_dict, radius))
    /\ UNCHANGED <<prediction, pseudo_dict, tieOrder, run>>

\* fine_tuning = 3: pseudo_plus_labels_by_percentage_sam
CallPseudoPlusLabelsByPercentage(percentage, img_label) ==
    /\ Idle
    /\ call' = Call("pseudo_plus_labels_by_percentage", percentage, 0, 0, img_label)
    /\ ret' = IF percentage_invalid(percentage)
              THEN Raised("ValueError")
              ELSE Returned(PseudoPlusLabels(Size(pseudo_dict),
                       labels_by_percentage(pseudo_dict, percentage, tieOrder),
                       img_label))
    /\ UNCHANGED <<prediction, pseudo_dict, tieOrder, run>>

\* fine_tuning = 4: labels_by_percentage_sam
CallOnlyLabelsByPercentage(percentage, img_label) ==
    /\ Idle
    /\ call' = Call("only_labels_by_percentage", percentage, 0, 0, img_label)
    /\ ret' = IF percentage_invalid(percentage)
              THEN Raised("ValueError")
              ELSE Returned(OnlyLabels(Size(pseudo_dict),
                       labels_by_percentage(pseudo_dict, percentage, tieOrder),
                       img_label))
    /\ UNCHANGED <<prediction, pseudo_dict, tieOrder, run>>

\* fine_tuning = 5: pseudo_plus_labels_by_neighborhood
CallPseudoPlusLabelsByNeighborhood(radius, img_label) ==
    /\ Idle
    /\ call' = Call("pseudo_plus_labels_by_neighborhood", <<0, 1>>, radius, 0, img_label)
    /\ ret' = IF radius_invalid(radius)
              THEN Raised("ValueError")
              ELSE Returned(PseudoPlusLabels(Size(pseudo_dict),
                       labels_by_neighborhood(pseudo_dict, radius), img_label))
    /\ UNCHANGED <<prediction, pseudo_dict, tieOrder, run>>

\* fine_tuning = 6: real labels of the pairs left out by the neighbourhood
CallOnlyLabelsByNeighborhood(radius, img_label) ==
    /\ Idle
    /\ call' = Call("only_labels_by_neighborhood", <<0, 1>>, radius, 0, img_label)
    /\ ret' = IF radius_invalid(radius)
              THEN Raised("ValueError")
              ELSE Returned(OnlyLabels(Size(pseudo_dict),
                       labels_by_neighborhood(pseudo_dict, radius), img_label))
    /\ UNCHANGED <<prediction, pseudo_dict, tieOrder, run>>

\* the caller takes the result; the next call can start
Return ==
    /\ ~Idle
    /\ call' = NoCall
    /\ ret' = NoRet
    /\ UNCHANGED <<prediction, pseudo_dict, tieOrder, run>>

\* the caller takes the result; the first call returned is remembered, with
\* what it returned, so that a later call can be compared with it
Remembered(c, r) == [kind |-> "called", call |-> c, ret |-> r]

ReturnRemember ==
    /\ ~Idle
    /\ call' = NoCall
    /\ ret' = NoRet
    /\ run' = IF run.kind = "none" THEN Remembered(call, ret) ELSE run
    /\ UNCHANGED <<prediction, pseudo_dict, tieOrder>>

\* ------------------------------------------- pseudo-label generation script
\* The script of predutils.py: for each image of the dataset, the distances
\* of its slice of the preprocessed pairs are dumped in <name>.pickle and the
\* metrics and plots are saved in files named after the image.
\*   labels:  the shape (height, width) of each image, in dataset order
\*   names:   the name of each image; image k (0-based) is named k
\*   i:       the script's counter, used as slice offset and as name index
\*   done:    the number of images processed
\*   pickles: the records dumped, in order: name, slice [lo, hi) and shape
\*   reports: the names the .csv / .png files were written under
\*   error:   the exception that ended the script, if any
ShapeSize(shape) == shape[1] * shape[2]

Datasets ==
    UNION {[1..n -> (1..MaxRecH) \X (1..MaxRecW)] : n \in 1..MaxImages}

Generation(labels, i, done, pickles, reports, error) ==
    [kind |-> "generation", labels |-> labels,
     names |-> [k \in 1..Len(labels) |-> k - 1],
     i |-> i, done |-> done, pickles |-> pickles, reports |-> reports,
     error |-> error]

\* one pass of "for lab in labels": names[i] is first read when the progress
\* line is printed, before anything is computed or written
GenerateImage ==
    /\ run.kind = "generation"
    /\ run.error = "none"
    /\ run.done < Len(run.labels)
    /\ LET lab == run.labels[run.done + 1]
           i == run.i
       IN  run' = IF i >= Len(run.names)
                  THEN [run EXCEPT !.error = "IndexError"]
                  ELSE [run EXCEPT
                          !.pickles = Append(@, [name |-> run.names[i + 1],
                                                 lo |-> i,
                                                 hi |-> i + ShapeSize(lab),
                                                 shape |-> lab]),
                          !.reports = Append(@, run.names[i + 1]),
                          !.i = i + ShapeSize(lab),
                          !.done = @ + 1]
    /\ UNCHANGED <<prediction, pseudo_dict, tieOrder, call, ret>>

\* ------------------------------------------------ testing routine (main.py)
\* For each image of the test set: the base weights are loaded, the pairs to
\* fine-tune on are selected as the fine_tuning code says, shuffled and given
\* to the fine tuning, and the prediction is made.
\*   ft, percentage, radius: the settings read from net.conf
\*   images:    the record and the real labels of each image of the test set
\*   j:         the image being processed (0-based)
\*   pc:        the next step for image j
\*   weights:   the images the model has been fine-tuned on since the base
\*              weights were last loaded (<<>>: the base weights)
\*   selected:  data_used, labels_used as the selector returned them
\*   fed:       data_used, labels_used as given to the fine tuning
\*   predicted: for each image predicted so far, the weights it was made with
\*   error:     the exception that ended the routine, if any
TestImage(record, img_label) == [record |-> record, img_label |-> img_label]

TestImages ==
    {TestImage(EndToEndRecord,
               [i \in 0..3 |-> <<CHANGED_LABEL, UNKNOWN_LABEL,
                                  UNCHANGED_LABEL, CHANGED_LABEL>>[i + 1]]),
     TestImage(PseudoDict([i \in 0..1 |-> <<0, 2>>[i + 1]], 1, <<1, 2>>),
               [i \in 0..1 |-> <<UNCHANGED_LABEL, CHANGED_LABEL>>[i + 1]])}

TestSets == UNION {[1..n -> TestImages] : n \in 1..MaxImages}

\* the fine_tuning codes the routine has a branch for
ImplementedCodes == 0..9
PercentageCodes == {1, 3, 4, 7, 8, 9}
RadiusCodes == {2, 5, 6}
FineTuningCodes == (0 - 2)..11

Settings ==
    {[ft |-> ft, percentage |-> p, radius |-> DefaultRadius] :
        ft \in PercentageCodes, p \in Percentages}
    \cup {[ft |-> ft, percentage |-> <<1, 1>>, radius |-> r] :
        ft \in RadiusCodes, r \in 1..MaxRadius}
    \cup {[ft |-> ft, percentage |-> <<1, 1>>, radius |-> DefaultRadius] :
        ft \in FineTuningCodes \ (PercentageCodes \cup RadiusCodes)}

NoError == [exception |-> "none", code |-> 0]

Testing(settings, images, j, pc, weights, selected, fed, predicted, error) ==
    [kind |-> "testing", ft |-> settings.ft, percentage |-> settings.percentage,
     radius |-> settings.radius, images |-> images, j |-> j, pc |-> pc,
     weights |-> weights, selected |-> selected, fed |-> fed,
     predicted |-> predicted, error |-> error]

\* the positions of a set, in ascending order
RECURSIVE Ascending(_)
Ascending(S) ==
    IF S = {} THEN <<>>
    ELSE LET x == CHOOSE y \in S : \A z \in S : y <= z
         IN  <<x>> \o Ascending(S \ {x})

\* codes 7, 8, 9 (uncertainty and k-means sampling): some of the pairs, chosen
\* by the model's predictions or the clusters, each with its real label
ActiveSelections(n, img_label) ==
    {Selection(Ascending(S), RealLabels(img_label, Ascending(S))) :
        S \in SUBSET (0..(n - 1))}

\* data_used, labels_used for an implemented code
Selections(ft, percentage, radius, image, tie) ==
    LET record == image.record
        n == Size(record)
    IN  CASE ft = 0 ->
               {Selection([k \in 1..n |-> k - 1],
                          [k \in 1..n |-> pseudo_lab(record).a[k - 1]])}
          [] ft = 1 -> {labels_by_percentage(record, percentage, tie)}
          [] ft = 2 -> {labels_by_neighborhood(record, radius)}
          [] ft = 3 -> {PseudoPlusLabels(n,
                           labels_by_percentage(record, percentage, tie),
                           image.img_label)}
          [] ft = 4 -> {OnlyLabels(n,
                           labels_by_percentage(record, percentage, tie),
                           image.img_label)}
          [] ft = 5 -> {PseudoPlusLabels(n,
                           labels_by_neighborhood(record, radius),
                           image.img_label)}
          [] ft = 6 -> {OnlyLabels(n, labels_by_neighborhood(record, radius),
                                   image.img_label)}
          [] OTHER -> ActiveSelections(n, image.img_label)

\* (mutant) the two arrays are shuffled one after the other, each in its own
\* random order
Shuffled_Separately(selection) ==
    LET n == Len(selection.indices)
    IN  {Selection([k \in 1..n |-> selection.indices[p[k]]],
                   [k \in 1..n |-> selection.labels[q[k]]]) :
            p \in Permutations(1..n), q \in Permutations(1..n)}

\* taken_samples = np.c_[data_used, labels_used]; np.random.shuffle permutes
\* its rows; the two columns are then read back (astype(int) is exact on the
\* indices and label values the rows hold)
Shuffled(selection) ==
    LET n == Len(selection.indices)
        taken_samples == [k \in 1..n |->
                            <<selection.indices[k], selection.labels[k]>>]
    IN  {Selection([k \in 1..n |-> taken_samples[p[k]][1]],
                   [k \in 1..n |-> taken_samples[p[k]][2]]) :
            p \in Permutations(1..n)}

TestStep(pc) ==
    /\ run.kind = "testing"
    /\ run.pc = pc
    /\ UNCHANGED <<prediction, pseudo_dict, tieOrder, call, ret>>

\* (mutant) the base weights are loaded once, before the loop
TestLoadWeights_Once ==
    /\ TestStep("load")
    /\ run' = [run EXCEPT
                 !.weights = IF run.j = 0 THEN <<>> ELSE @,
                 !.pc = IF run.ft >= 0 THEN "select" ELSE "predict"]

\* model.load_weights(...); ft = int(...); if ft >= 0:
TestLoadWeights ==
    /\ TestStep("load")
    /\ run' = [run EXCEPT
                 !.weights = <<>>,
                 !.pc = IF run.ft >= 0 THEN "select" ELSE "predict"]

\* (mutant) a code without a branch selects nothing and goes on to predict
TestSelect_NoElse ==
    /\ TestStep("select")
    /\ IF run.ft \in ImplementedCodes
       THEN \E selection \in Selections(run.ft, run.percentage, run.radius,
                                         run.images[run.j + 1], tieOrder) :
               run' = [run EXCEPT !.selected = selection, !.pc = "tune"]
       ELSE run' = [run EXCEPT !.pc = "predict"]

\* the if / elif chain over ft, with its final else: raise ValueError
TestSelect ==
    /\ TestStep("select")
    /\ IF run.ft \in ImplementedCodes
       THEN \E selection \in Selections(run.ft, run.percentage, run.radius,
                                         run.images[run.j + 1], tieOrder) :
               run' = [run EXCEPT !.selected = selection, !.pc = "tune"]
       ELSE run' = [run EXCEPT
                      !.error = [exception |-> "ValueError", code |-> run.ft],
                      !.pc = "error"]

\* the shuffle, then s.fine_tuning(model, batch_size, pairs[data_used],
\* labels_used), which returns the model tuned on this image
TestFineTune ==
    /\ TestStep("tune")
    /\ \E fed \in Shuffled(run.selected) :
          run' = [run EXCEPT !.fed = fed,
                             !.weights = Append(@, run.j),
                             !.pc = "predict"]

\* model.predict(...), the reports, and j += 1
TestPredict ==
    /\ TestStep("predict")
    /\ run' = [run EXCEPT
                 !.predicted = Append(@, run.weights),
                 !.j = @ + 1,
                 !.pc = IF run.j + 1 < Len(run.images) THEN "load" ELSE "done"]

\* ----------------------------------------------------------- specifications
\* the selectors, called on the record of one image
Init ==
    /\ prediction = NoGrid
    /\ pseudo_dict \in Records
    /\ tieOrder \in TieOrders
    /\ call = NoCall
    /\ ret = NoRet
    /\ run = NoRun

Next ==
    \/ \E threshold \in 0..MaxDist : CallPseudoLabels(threshold)
    \/ \E percentage \in Percentages \cup BadPercentages :
          CallLabelsByPercentage(percentage)
    \/ \E radius \in 0..MaxRadius : CallLabelsByNeighborhood(radius)
    \/ \E percentage \in Percentages \cup BadPercentages :
          \E img_label \in GroundTruths(Size(pseudo_dict)) :
             CallPseudoPlusLabelsByPercentage(percentage, img_label)
    \/ \E percentage \in Percentages \cup BadPercentages :
          \E img_label \in GroundTruths(Size(pseudo_dict)) :
             CallOnlyLabelsByPercentage(percentage, img_label)
    \/ \E radius \in 0..MaxRadius :
          \E img_label \in GroundTruths(Size(pseudo_dict)) :
             CallPseudoPlusLabelsByNeighborhood(radius, img_label)
    \/ \E radius \in 0..MaxRadius :
          \E img_label \in GroundTruths(Size(pseudo_dict)) :
             CallOnlyLabelsByNeighborhood(radius, img_label)
    \/ Return

Spec == Init /\ [][Next]_vars

\* spatial_correction, called on a label map
InitCorrection ==
    /\ prediction \in GridsOver(Labels, MaxH, MaxW)
    /\ pseudo_dict = NoRecord
    /\ tieOrder = "asc"
    /\ call = NoCall
    /\ ret = NoRet
    /\ run = NoRun

NextCorrection ==
    \/ \E radius \in 1..MaxRadius : CallSpatialCorrection(radius)
    \/ Return

SpecCorrection == InitCorrection /\ [][NextCorrection]_vars

\* the two selectors, called on a record whose shape does not match
InitMalformed ==
    /\ prediction = NoGrid
    /\ pseudo_dict \in MalformedRecords
    /\ tieOrder \in TieOrders
    /\ call = NoCall
    /\ ret = NoRet
    /\ run = NoRun

NextMalformed ==
    \/ \E percentage \in Percentages \cup BadPercentages :
          CallLabelsByPercentage(percentage)
    \/ \E radius \in 0..MaxRadius : CallLabelsByNeighborhood(radius)
    \/ Return

SpecMalformed == InitMalformed /\ [][NextMalformed]_vars

\* any sequence of calls of the two selectors on the record of one image
NextRepeat ==
    \/ \E percentage \in Percentages \cup BadPercentages :
          CallLabelsByPercentage(percentage)
    \/ \E radius \in 0..MaxRadius : CallLabelsByNeighborhood(radius)
    \/ ReturnRemember

SpecRepeat == Init /\ [][NextRepeat]_vars

\* the generation script, run on a dataset
InitGeneration ==
    /\ prediction = NoGrid
    /\ pseudo_dict = NoRecord
    /\ tieOrder = "asc"
    /\ call = NoCall
    /\ ret = NoRet
    /\ run \in {Generation(labels, 0, 0, <<>>, <<>>, "none") : labels \in Datasets}

NextGeneration == GenerateImage

SpecGeneration == InitGeneration /\ [][NextGeneration]_vars

\* the testing routine, run on a test set with the settings of net.conf
InitTesting ==
    /\ prediction = NoGrid
    /\ pseudo_dict = NoRecord
    /\ tieOrder \in TieOrders
    /\ call = NoCall
    /\ ret = NoRet
    /\ run \in {Testing(settings, images, 0, "load", <<>>, NoSelection,
                         NoSelection, <<>>, NoError) :
                    settings \in Settings, images \in TestSets}

NextTesting ==
    \/ TestLoadWeights
    \/ TestSelect
    \/ TestFineTune
    \/ TestPredict

SpecTesting == InitTesting /\ [][NextTesting]_vars

\* =================================================================== claims
\* What the claims speak of, stated over sets of cells rather than computed
\* the way the code computes it.
Pixels(g) == (0..(g.h - 1)) \X (0..(g.w - 1))

\* the cells of rows [max(0,r-radius+1), min(H,r+radius)) and columns
\* [max(0,c-radius+1), min(W,c+radius))
WindowCells(g, r, c, radius) ==
    {p \in Pixels(g) :
        /\ p[1] >= r - radius + 1 /\ p[1] < r + radius
        /\ p[2] >= c - radius + 1 /\ p[2] < c + radius}

Frequency(g, cells, l) == Cardinality({p \in cells : At(g, p[1], p[2]) = l})

StrictlyMostFrequent(g, cells, l) ==
    \A m \in Labels \ {l} : Frequency(g, cells, l) > Frequency(g, cells, m)

LabelsIn(g, cells) == {At(g, p[1], p[2]) : p \in cells}

\* the number of labels that share the top frequency of the window
TopLabels(g, cells) ==
    {l \in Labels : /\ Frequency(g, cells, l) > 0
                    /\ \A m \in Labels : Frequency(g, cells, m) <= Frequency(g, cells, l)}

\* majority smoothing as the specification words it
Smoothed(g, radius) ==
    Grid(g.h, g.w,
         [i \in 0..(g.h * g.w - 1) |->
            LET cells == WindowCells(g, i \div g.w, i % g.w, radius)
            IN  IF \E l \in Labels : StrictlyMostFrequent(g, cells, l)
                THEN CHOOSE l \in Labels : StrictlyMostFrequent(g, cells, l)
                ELSE g.a[i]])

\* the flat indices whose window holds exactly one distinct label
Unanimous(g, radius) ==
    {i \in 0..(g.h * g.w - 1) :
        Cardinality(LabelsIn(g, WindowCells(g, i \div g.w, i % g.w, radius))) = 1}

Thresholded(record) ==
    reshape([i \in 0..(Size(record) - 1) |->
                IF record.distances[i] > record.threshold
                THEN CHANGED_LABEL ELSE UNCHANGED_LABEL], record.shape)

\* a selection is exactly the pixels of `chosen', in row-major order, each
\* with its label in map g
SelectsExactly(selection, chosen, g) ==
    /\ Len(selection.indices) = Len(selection.labels)
    /\ RangeOf(selection.indices) = chosen
    /\ \A k \in 1..Len(selection.indices) :
          /\ selection.labels[k] = g.a[selection.indices[k]]
          /\ k > 1 => selection.indices[k - 1] < selection.indices[k]

Corrected == call.op = "spatial_correction" /\ ret.outcome = "ok"
ByPercentage == call.op = "labels_by_percentage" /\ ret.outcome = "ok"
ByNeighborhood == call.op = "labels_by_neighborhood" /\ ret.outcome = "ok"

\* C1: spatial_correction gives every pixel the label that is strictly the
\* most frequent in its clipped window, and keeps the pixel's input label
\* when two or more labels tie for the top frequency.
C1_WindowMajority ==
    Corrected =>
        /\ ret.map.h = prediction.h /\ ret.map.w = prediction.w
        /\ \A p \in Pixels(prediction) :
              LET cells == WindowCells(prediction, p[1], p[2], call.radius)
                  out == At(ret.map, p[1], p[2])
              IN  /\ \A l \in Labels :
                        StrictlyMostFrequent(prediction, cells, l) => out = l
                  /\ Cardinality(TopLabels(prediction, cells)) >= 2
                        => out = At(prediction, p[1], p[2])

\* a map where one pixel is relabelled by its majority and another pixel,
\* with three labels tying in its window, keeps its label
C1_Witness ==
    /\ Corrected
    /\ \E p \in Pixels(prediction) :
          /\ At(ret.map, p[1], p[2]) # At(prediction, p[1], p[2])
    /\ \E p \in Pixels(prediction) :
          /\ Cardinality(TopLabels(prediction,
                 WindowCells(prediction, p[1], p[2], call.radius))) = 3
          /\ At(ret.map, p[1], p[2]) = At(prediction, p[1], p[2])

\* C2 (as stated): labels_by_neighborhood smooths the thresholded map with
\* the radius it is given, and then selects the unanimous-window pixels.
C2_SmoothsWithGivenRadius ==
    ByNeighborhood =>
        LET g == Smoothed(Thresholded(pseudo_dict), call.radius)
        IN  SelectsExactly(ret.selection, Unanimous(g, call.radius), g)

\* C2 (amended): labels_by_neighborhood smooths the thresholded map with the
\* corrector's default radius 3, whatever radius it is given; the given
\* radius only sizes the window of the unanimity test.
C2_SmoothsWithDefaultRadius ==
    ByNeighborhood =>
        LET g == Smoothed(Thresholded(pseudo_dict), 3)
        IN  SelectsExactly(ret.selection, Unanimous(g, call.radius), g)

\* a call whose radius is not 3 and for which the two smoothings differ
C2_Witness ==
    /\ ByNeighborhood
    /\ call.radius # 3
    /\ Smoothed(Thresholded(pseudo_dict), 3)
         # Smoothed(Thresholded(pseudo_dict), call.radius)
    /\ ret.selection.indices # <<>>

EndToEndCall ==
    /\ pseudo_dict = EndToEndRecord
    /\ ByPercentage
    /\ call.percentage = <<1, 2>>

EndToEndLabels ==
    pseudo_dict = EndToEndRecord /\ call.op = "pseudo_labels" /\ call.threshold = 5
        => ret.map.a = [i \in 0..3 |->
              <<UNCHANGED_LABEL, UNCHANGED_LABEL, CHANGED_LABEL, CHANGED_LABEL>>[i + 1]]

UnanimityCall ==
    /\ pseudo_dict = UnanimityRecord
    /\ ByNeighborhood
    /\ call.radius = 2

CentreBlock == {6, 7, 8, 11, 12, 13, 16, 17, 18}
Corners == {0, 4, 20, 24}

CornersSelected ==
    \A i \in Corners :
        \E k \in 1..Len(ret.selection.indices) :
            /\ ret.selection.indices[k] = i
            /\ ret.selection.labels[k] = UNCHANGED_LABEL

\* C4 (as stated): 5x5 map, all UNCHANGED but the centre: with radius 2 the
\* centre pixel and its adjacent neighbours are not selected, the four
\* corners are selected with label UNCHANGED.
C4_UnanimityAsStated ==
    UnanimityCall =>
        /\ RangeOf(ret.selection.indices) \cap CentreBlock = {}
        /\ CornersSelected

\* C4 (amended): ... with radius 2 every one of the 25 pixels is selected
\* with label UNCHANGED, the centre and its neighbours included (the smoothing
\* relabels the lone CHANGED pixel before the windows are inspected); so the
\* four corners are selected with label UNCHANGED.
C4_Unanimity ==
    UnanimityCall =>
        /\ ret.selection.indices = [k \in 1..25 |-> k - 1]
        /\ ret.selection.labels = [k \in 1..25 |-> UNCHANGED_LABEL]
        /\ CornersSelected

C4_Witness ==
    /\ UnanimityCall
    /\ At(Thresholded(pseudo_dict), 2, 2) = CHANGED_LABEL
    /\ 12 \in RangeOf(ret.selection.indices)

\* the two classes of a record: positions at or below, and above, the threshold
UnchangedClass(record) ==
    {i \in 0..(Size(record) - 1) : record.distances[i] <= record.threshold}
ChangedClass(record) ==
    {i \in 0..(Size(record) - 1) : record.distances[i] > record.threshold}

Labelled(selection, l) ==
    {k \in 1..Len(selection.labels) : selection.labels[k] = l}

\* floor(num/den * n), by its defining inequalities
IsFloor(q, percentage, n) ==
    /\ q * percentage[2] <= percentage[1] * n
    /\ (q + 1) * percentage[2] > percentage[1] * n

\* C5: for a percentage in (0,1], labels_by_percentage returns exactly
\* floor(percentage * nU) positions labelled UNCHANGED and
\* floor(percentage * nC) positions labelled CHANGED.
C5_SelectionSize ==
    ByPercentage =>
        /\ IsFloor(Cardinality(Labelled(ret.selection, UNCHANGED_LABEL)),
                   call.percentage, Cardinality(UnchangedClass(pseudo_dict)))
        /\ IsFloor(Cardinality(Labelled(ret.selection, CHANGED_LABEL)),
                   call.percentage, Cardinality(ChangedClass(pseudo_dict)))
        /\ Labelled(ret.selection, UNKNOWN_LABEL) = {}
        /\ Len(ret.selection.indices) = Len(ret.selection.labels)

\* ten candidates of each class at percentage 0.5: five of each, ten in all
C5_Witness ==
    /\ ByPercentage
    /\ pseudo_dict = TenTenRecord
    /\ call.percentage = <<1, 2>>
    /\ Cardinality(Labelled(ret.selection, UNCHANGED_LABEL)) = 5
    /\ Cardinality(Labelled(ret.selection, CHANGED_LABEL)) = 5
    /\ Len(ret.selection.indices) = 10

\* C6: the result lists the selected UNCHANGED positions first, in
\* non-decreasing distance, then the selected CHANGED positions, in
\* non-increasing distance; no unselected position of a class is strictly
\* more confident than a selected one of that class; the label at each
\* result position is the class of the index at that position.
C6_ConfidenceOrder ==
    ByPercentage =>
        LET idx == ret.selection.indices
            lab == ret.selection.labels
            d == pseudo_dict.distances
            U == UnchangedClass(pseudo_dict)
            C == ChangedClass(pseudo_dict)
        IN  /\ Len(idx) = Len(lab)
            /\ \A k \in 1..Len(idx) :
                  /\ idx[k] \in U => lab[k] = UNCHANGED_LABEL
                  /\ idx[k] \in C => lab[k] = CHANGED_LABEL
                  /\ idx[k] \in U \cup C
            /\ \A j, k \in 1..Len(idx) :
                  j < k =>
                     /\ ~(idx[j] \in C /\ idx[k] \in U)
                     /\ idx[j] \in U /\ idx[k] \in U => d[idx[j]] <= d[idx[k]]
                     /\ idx[j] \in C /\ idx[k] \in C => d[idx[j]] >= d[idx[k]]
            /\ \A i \in U \ RangeOf(idx) :
                  \A k \in 1..Len(idx) : idx[k] \in U => d[i] >= d[idx[k]]
            /\ \A i \in C \ RangeOf(idx) :
                  \A k \in 1..Len(idx) : idx[k] \in C => d[i] <= d[idx[k]]

\* a result with two positions of each class, of different distances, that
\* leaves out positions of both classes
C6_Witness ==
    /\ ByPercentage
    /\ \E j, k \in 1..Len(ret.selection.indices) :
          /\ j < k
          /\ ret.selection.labels[j] = UNCHANGED_LABEL
          /\ ret.selection.labels[k] = UNCHANGED_LABEL
          /\ pseudo_dict.distances[ret.selection.indices[j]]
               < pseudo_dict.distances[ret.selection.indices[k]]
    /\ \E j, k \in 1..Len(ret.selection.indices) :
          /\ j < k
          /\ ret.selection.labels[j] = CHANGED_LABEL
          /\ ret.selection.labels[k] = CHANGED_LABEL
          /\ pseudo_dict.distances[ret.selection.indices[j]]
               > pseudo_dict.distances[ret.selection.indices[k]]
    /\ UnchangedClass(pseudo_dict) \ RangeOf(ret.selection.indices) # {}
    /\ ChangedClass(pseudo_dict) \ RangeOf(ret.selection.indices) # {}

\* C7: labels_by_neighborhood selects a pixel if and only if its radius-window
\* in the smoothed map holds exactly one distinct label; the label returned
\* is the smoothed map's label at the pixel; the flat indices r*W+c are
\* returned in strictly increasing order.
C7_UnanimousWindows ==
    ByNeighborhood =>
        LET g == pseudo_lab(pseudo_dict)
        IN  /\ Len(ret.selection.indices) = Len(ret.selection.labels)
            /\ \A p \in Pixels(g) :
                  (\E k \in 1..Len(ret.selection.indices) :
                       /\ ret.selection.indices[k] = p[1] * g.w + p[2]
                       /\ ret.selection.labels[k] = At(g, p[1], p[2]))
                  <=> Cardinality(LabelsIn(g,
                         WindowCells(g, p[1], p[2], call.radius))) = 1
            /\ \A k \in 1..Len(ret.selection.indices) :
                  /\ ret.selection.indices[k] \in 0..(g.h * g.w - 1)
                  /\ k > 1 => ret.selection.indices[k - 1] < ret.selection.indices[k]

\* a smoothed map with both labels, some pixels selected and some left out
C7_Witness ==
    /\ ByNeighborhood
    /\ Len(ret.selection.indices) >= 2
    /\ Len(ret.selection.indices) < Size(pseudo_dict)
    /\ RangeOf(ret.selection.labels) = {CHANGED_LABEL, UNCHANGED_LABEL}
    /\ pseudo_lab(pseudo_dict) # Thresholded(pseudo_dict)

\* C8: thresholding labels CHANGED exactly the positions whose distance is
\* above the threshold and UNCHANGED all others, and is monotonic: a position
\* UNCHANGED under a threshold stays UNCHANGED under every higher threshold.
C8_ThresholdMonotonic ==
    call.op = "pseudo_labels" =>
        LET d == pseudo_dict.distances
            t == call.threshold
        IN  /\ \A i \in 0..(Size(pseudo_dict) - 1) :
                  /\ ret.map.a[i] = CHANGED_LABEL <=> d[i] > t
                  /\ ret.map.a[i] = UNCHANGED_LABEL <=> d[i] <= t
            /\ \A t2 \in t..(MaxDist + 1) :
                  \A i \in 0..(Size(pseudo_dict) - 1) :
                     ret.map.a[i] = UNCHANGED_LABEL
                        => where_gt(d, t2)[i] = UNCHANGED_LABEL
            /\ \A t1 \in (0 - 1)..t :
                  \A i \in 0..(Size(pseudo_dict) - 1) :
                     where_gt(d, t1)[i] = UNCHANGED_LABEL
                        => ret.map.a[i] = UNCHANGED_LABEL

\* a map with both labels, one of them on a distance equal to the threshold,
\* that a higher threshold would change
C8_Witness ==
    /\ call.op = "pseudo_labels"
    /\ \E i, j \in 0..(Size(pseudo_dict) - 1) :
          /\ pseudo_dict.distances[i] = call.threshold
          /\ ret.map.a[i] = UNCHANGED_LABEL
          /\ ret.map.a[j] = CHANGED_LABEL
          /\ where_gt(pseudo_dict.distances, call.threshold + 1)[j] = UNCHANGED_LABEL

HybridOps ==
    {"pseudo_plus_labels_by_percentage", "only_labels_by_percentage",
     "pseudo_plus_labels_by_neighborhood", "only_labels_by_neighborhood"}

\* the positions the primary selector of a hybrid call selects
PrimaryIndices ==
    IF call.op \in {"pseudo_plus_labels_by_percentage", "only_labels_by_percentage"}
    THEN labels_by_percentage(pseudo_dict, call.percentage, tieOrder).indices
    ELSE labels_by_neighborhood(pseudo_dict, call.radius).indices

NoDuplicates(seq) == \A j, k \in 1..Len(seq) : j # k => seq[j] # seq[k]

C10_FailFast ==
    /\ call.op = "labels_by_percentage"
         /\ (call.percentage[1] <= 0 \/ call.percentage[1] > call.percentage[2])
         => /\ ret.outcome = "ValueError"
            /\ ~ret.read
            /\ ret.selection = NoSelection
    /\ call.op = "labels_by_neighborhood" /\ call.radius < 1
         => /\ ret.outcome = "ValueError"
            /\ ~ret.read
            /\ ret.selection = NoSelection

\* a call with percentage 0 on a record that percentage 1 selects all of
C10_Witness ==
    /\ call.op = "labels_by_percentage"
    /\ call.percentage = <<0, 1>>
    /\ ret.outcome = "ValueError"
    /\ Size(pseudo_dict) > 0

Malformed(record) ==
    Cardinality(DOMAIN record.distances) # record.shape[1] * record.shape[2]

\* C11 (as stated): on a record whose distances length differs from
\* height*width, labels_by_percentage and labels_by_neighborhood both fail
\* with an error and return no selection.
C11_MalformedAsStated ==
    /\ Malformed(pseudo_dict)
    /\ call.op \in {"labels_by_percentage", "labels_by_neighborhood"}
    => /\ ret.outcome \notin {"ok", "none"}
       /\ ret.selection = NoSelection

\* C11 (amended): on such a record labels_by_neighborhood fails with an
\* error (the reshape of the distances to the shape) and returns no
\* selection; labels_by_percentage never looks at the shape: for a percentage
\* in (0,1] it returns its selection over the len(distances) positions.
C11_Malformed ==
    /\ Malformed(pseudo_dict) /\ call.op = "labels_by_neighborhood"
         => /\ ret.outcome = "ValueError"
            /\ ret.selection = NoSelection
    /\ Malformed(pseudo_dict) /\ call.op = "labels_by_percentage"
         /\ call.percentage \in Percentages
         => LET d == pseudo_dict.distances
                nU == Cardinality({i \in DOMAIN d : d[i] <= pseudo_dict.threshold})
                nC == Cardinality({i \in DOMAIN d : d[i] > pseudo_dict.threshold})
            IN  /\ ret.outcome = "ok"
                /\ RangeOf(ret.selection.indices) \subseteq DOMAIN d
                /\ IsFloor(Cardinality(Labelled(ret.selection, UNCHANGED_LABEL)),
                           call.percentage, nU)
                /\ IsFloor(Cardinality(Labelled(ret.selection, CHANGED_LABEL)),
                           call.percentage, nC)

\* a record with more distances than its shape holds: the neighbourhood call
\* with a valid radius has failed after reading it
C11_Witness ==
    /\ Malformed(pseudo_dict)
    /\ Cardinality(DOMAIN pseudo_dict.distances)
          > pseudo_dict.shape[1] * pseudo_dict.shape[2]
    /\ call.op = "labels_by_neighborhood"
    /\ call.radius >= 1
    /\ ret.outcome = "ValueError"
    /\ ret.read

\* C13: for every valid input, the result of labels_by_percentage and of
\* labels_by_neighborhood has as many labels as indices, every index lies in
\* 0..N-1, and no index occurs twice.
C13_WellFormedSelection ==
    ByPercentage \/ ByNeighborhood =>
        /\ Len(ret.selection.indices) = Len(ret.selection.labels)
        /\ \A k \in 1..Len(ret.selection.indices) :
              /\ ret.selection.indices[k] >= 0
              /\ ret.selection.indices[k] <= Size(pseudo_dict) - 1
        /\ \A j, k \in 1..Len(ret.selection.indices) :
              j < k => ret.selection.indices[j] # ret.selection.indices[k]

\* a percentage selection with positions of both classes, on a record that
\* has a distance equal to its threshold
C13_Witness ==
    /\ ByPercentage
    /\ RangeOf(ret.selection.labels) = {CHANGED_LABEL, UNCHANGED_LABEL}
    /\ Len(ret.selection.indices) >= 3
    /\ \E i \in 0..(Size(pseudo_dict) - 1) :
          pseudo_dict.distances[i] = pseudo_dict.threshold

Uniform(g) == \E l \in Labels : \A i \in 0..(g.h * g.w - 1) : g.a[i] = l

\* C14: on a grid whose cells all carry the same label (CHANGED, UNCHANGED or
\* UNKNOWN), spatial_correction returns a grid equal to its input, for every
\* radius >= 1.
C14_UniformUnchanged ==
    Corrected /\ Uniform(prediction) => ret.map = prediction

\* a uniform UNKNOWN grid of several cells, corrected with a radius that
\* takes in the neighbours
C14_Witness ==
    /\ Corrected
    /\ Uniform(prediction)
    /\ prediction.h * prediction.w >= 4
    /\ prediction.a[0] = UNKNOWN_LABEL
    /\ call.radius >= 2
    /\ ret.map.a[0] = UNKNOWN_LABEL

\* C19: with radius 1 the window of a pixel is the pixel itself, so
\* spatial_correction returns a grid equal to its input, whatever the input
\* (grids holding UNKNOWN included).
C19_RadiusOneIdentity ==
    Corrected /\ call.radius = 1 =>
        /\ ret.map = prediction
        /\ \A p \in Pixels(prediction) :
              Window(prediction, p[1], p[2], 1) = <<At(prediction, p[1], p[2])>>

\* a grid with the three labels, corrected with radius 1, that a larger
\* radius would change
C19_Witness ==
    /\ Corrected
    /\ call.radius = 1
    /\ LabelsIn(prediction, Pixels(prediction)) = Labels
    /\ Smoothed(prediction, 2) # prediction
    /\ ret.map = prediction

\* the call in progress has returned or raised, and is the remembered call
\* made again
Repeated ==
    /\ run.kind = "called"
    /\ ret.outcome # "none"
    /\ call = run.call

\* the labels of a percentage selection follow the record's stored threshold
StoredThresholdUsed ==
    /\ ByPercentage =>
          \A k \in 1..Len(ret.selection.indices) :
             ret.selection.labels[k] =
                IF pseudo_dict.distances[ret.selection.indices[k]]
                      > pseudo_dict.threshold
                THEN CHANGED_LABEL ELSE UNCHANGED_LABEL
    /\ ByPercentage =>
          /\ IsFloor(Cardinality(Labelled(ret.selection, UNCHANGED_LABEL)),
                     call.percentage, Cardinality(UnchangedClass(pseudo_dict)))
          /\ IsFloor(Cardinality(Labelled(ret.selection, CHANGED_LABEL)),
                     call.percentage, Cardinality(ChangedClass(pseudo_dict)))
    /\ ByNeighborhood =>
          LET g == Smoothed(Thresholded(pseudo_dict), 3)
          IN  SelectsExactly(ret.selection, Unanimous(g, call.radius), g)

\* C15: over any sequence of calls of labels_by_percentage and
\* labels_by_neighborhood, with valid or invalid parameters, the record's
\* distances, threshold and shape never change; every call partitions the
\* pixels with the record's stored threshold; and a call made again with the
\* same arguments gives the same result.
C15_RecordReadOnly ==
    /\ [][pseudo_dict' = pseudo_dict]_vars
    /\ [](StoredThresholdUsed)
    /\ [](Repeated => ret = run.ret)

\* a successful selection made again, after other calls, on a record where
\* two pairs have the same distance
C15_Witness ==
    /\ Repeated
    /\ ret.outcome = "ok"
    /\ ret = run.ret
    /\ Len(ret.selection.indices) >= 1
    /\ Len(ret.selection.indices) < Size(pseudo_dict)
    /\ \E i, j \in 0..(Size(pseudo_dict) - 1) :
          i # j /\ pseudo_dict.distances[i] = pseudo_dict.distances[j]

\* the number of pixel pairs of the first n images
RECURSIVE PairsBefore(_, _)
PairsBefore(labels, n) ==
    IF n = 0 THEN 0 ELSE PairsBefore(labels, n - 1) + ShapeSize(labels[n])

\* C17: in the generation script, whatever the number of images, the k-th
\* image's record and report files are written under the k-th image's own
\* name, and its slice is the contiguous range that follows the slices of
\* the images before it.
C17_OwnNameAndSlice ==
    run.kind = "generation" =>
        /\ run.error = "none"
        /\ Len(run.pickles) = run.done
        /\ Len(run.reports) = run.done
        /\ \A k \in 1..Len(run.pickles) :
              /\ run.pickles[k].name = run.names[k]
              /\ run.reports[k] = run.names[k]
              /\ run.pickles[k].shape = run.labels[k]
              /\ run.pickles[k].lo = PairsBefore(run.labels, k - 1)
              /\ run.pickles[k].hi = PairsBefore(run.labels, k)

\* ------------------------------------------------------- the testing routine
\* the (index, label) pairs of a selection, in order
PairsOf(selection) ==
    [k \in 1..Len(selection.indices) |->
        <<selection.indices[k], selection.labels[k]>>]

SameMultiset(s, t) ==
    /\ Len(s) = Len(t)
    /\ \A x \in RangeOf(s) \cup RangeOf(t) : Occurrences(s, x) = Occurrences(t, x)

\* nothing was fine-tuned: the weights are the base weights and nothing was
\* handed to the fine tuning
NoFineTuning ==
    /\ run.weights = <<>>
    /\ run.fed = NoSelection

\* the routine stopped in the selection of the first image, or has not yet
\* reached it, with an error that names the code
FailsNamingCode ==
    /\ NoFineTuning
    /\ run.predicted = <<>>
    /\ run.pc \in {"load", "select", "error"}
    /\ IF run.pc = "error"
       THEN run.error = [exception |-> "ValueError", code |-> run.ft]
       ELSE run.error = NoError

\* C12, as stated: for every fine_tuning code outside 0..9 the routine fails
\* with an error that names the code, and neither fine-tunes nor predicts.
C12_UnknownCodeAsStated ==
    (run.kind = "testing" /\ run.ft \notin ImplementedCodes) => FailsNamingCode

\* C12, amended: a code above 9 fails with a ValueError that names the code,
\* without fine-tuning or prediction; a negative code raises nothing, does no
\* fine-tuning, and every image is predicted with the base weights.
C12_UnknownCode ==
    run.kind = "testing" =>
        /\ run.ft > 9 => FailsNamingCode
        /\ run.ft < 0 =>
              /\ NoFineTuning
              /\ run.error = NoError
              /\ run.pc \in {"load", "predict", "done"}
              /\ \A k \in 1..Len(run.predicted) : run.predicted[k] = <<>>

C12_Witness ==
    /\ run.kind = "testing"
    /\ run.ft > 9
    /\ run.pc = "error"
    /\ run.error.exception = "ValueError"
    /\ Len(run.images) >= 2

\* C16: for every image of the test set the weights are reset to the base
\* weights before that image's fine-tuning and prediction: the prediction of
\* image j is made with the base weights tuned on image j alone (or with the
\* base weights, when no fine-tuning is done), never with an earlier image's
\* fine-tuning.
C16_FreshWeights ==
    run.kind = "testing" =>
        /\ run.pc \in {"select", "tune"} => run.weights = <<>>
        /\ run.pc = "predict" =>
              run.weights = IF run.ft >= 0 THEN <<run.j>> ELSE <<>>
        /\ \A k \in 1..Len(run.predicted) :
              run.predicted[k] = IF run.ft >= 0 THEN <<k - 1>> ELSE <<>>

C16_Witness ==
    /\ run.kind = "testing"
    /\ run.ft \in ImplementedCodes
    /\ Len(run.predicted) >= 2
    /\ Len(run.fed.indices) >= 1
    /\ run.predicted[2] = <<1>>

\* C18: the shuffle permutes (index, label) pairs as units: the multiset of
\* pairs handed to the fine tuning equals the multiset of pairs the selector
\* returned, whatever the selection.
C18_ShuffleKeepsPairs ==
    (run.kind = "testing" /\ run.pc # "tune") =>
        SameMultiset(PairsOf(run.fed), PairsOf(run.selected))

C18_Witness ==
    /\ run.kind = "testing"
    /\ run.pc = "predict"
    /\ Len(run.fed.indices) >= 2
    /\ run.fed.indices # run.selected.indices
    /\ run.fed.labels # run.selected.labels
    /\ SameMultiset(PairsOf(run.fed), PairsOf(run.selected))

====
